---- MODULE Spec2Model ----
(***************************************************************************)
(* Model of the product-catalog backend in src/server.js: the bearer-token *)
(* gateway (verifyToken), the upload step (uploadMiddleware), the login    *)
(* route and the product routes, with the document store and the media     *)
(* backend as shared state.  The earlier revision of the server, in        *)
(* src/unnamed/part_000, differs by a required price field; priceRequired  *)
(* says which revision runs.                                               *)
(*                                                                         *)
(* A handler suspends at each await, and the steps of different requests   *)
(* interleave there.  The steps of one request between two reads or writes *)
(* of shared state are one action: the upload step touches nothing but the *)
(* media backend's own counter of stored files, so it is taken in one step *)
(* with the handler's first store call.                                    *)
(***************************************************************************)
EXTENDS Bags, FiniteSets, Integers, Sequences, TLC

VARIABLES
  isCloudinaryConfigured, \* process configuration, fixed at start
  priceRequired,          \* the revision whose schema has a required price
  users,                  \* the User collection
  products,               \* the Product collection: id -> document
  nextId,                 \* number of product ids assigned so far
  uploads,                \* number of files the media backend has stored
  destroyCalls,           \* media key -> number of uploader.destroy calls
  inflight,               \* bag of requests suspended inside a handler
  received,               \* number of requests received so far
  errorLog,               \* number of destroy failures written by console.error
  resp                    \* the response sent last

vars == <<isCloudinaryConfigured, priceRequired, users, products, nextId,
          uploads, destroyCalls, inflight, received, errorLog,
          resp>>

----------------------------------------------------------------------------
(* Bounds of the model *)

\* requests the server receives in one run
MaxRequests == 3

----------------------------------------------------------------------------
(* JavaScript values *)

UNDEFINED == "<undefined>"
NULL == "<null>"

\* !v for the string-or-absent values of a request body
Falsy(v) == v \in {UNDEFINED, NULL, ""}

\* present in a stored document: neither null nor missing
Present(v) == v \notin {UNDEFINED, NULL}

----------------------------------------------------------------------------
(* Response messages *)

MsgNoToken == "Access Denied. No token provided."
MsgInvalidToken == "Invalid or Expired Token"
MsgAdminRequired == "Unauthorized. Admin access required."
MsgAdminNotFound == "Admin not found."
MsgBadPassword == "Incorrect password."
MsgMissing == "Missing required fields."
MsgAdded == "Product added successfully"
MsgNotFound == "Product not found"
MsgDeleted == "Product deleted successfully."
MsgServerError == "Server Error"
MsgInternalError == "Internal Server Error"
MsgUploadError == "upload error"
MsgJson == "json"

----------------------------------------------------------------------------
(* Credentials *)

AdminId == "u1"
StaffId == "u2"

\* jwt.sign(payload, SECRET_KEY, {expiresIn: "1d"})
JwtSign(id, admin) ==
  [sigOk |-> TRUE, expired |-> FALSE, sub |-> id, isAdmin |-> admin]

NoToken == [sigOk |-> FALSE, expired |-> FALSE, sub |-> NULL, isAdmin |-> FALSE]

\* Authorization header values a client can send
NoHeader == [present |-> FALSE, parts |-> 0, token |-> NoToken]
Bearer(t) == [present |-> TRUE, parts |-> 2, token |-> t]
ForgedHeader == Bearer([JwtSign(AdminId, TRUE) EXCEPT !.sigOk = FALSE])
ExpiredHeader == Bearer([JwtSign(AdminId, TRUE) EXCEPT !.expired = TRUE])
NonAdminHeader == Bearer(JwtSign(StaffId, FALSE))
AdminHeader == Bearer(JwtSign(AdminId, TRUE))

Headers == {NoHeader, ForgedHeader, ExpiredHeader, NonAdminHeader, AdminHeader}

\* jwt.verify(token.split(" ")[1], SECRET_KEY) does not throw
JwtVerifies(h) == h.parts = 2 /\ h.token.sigOk /\ ~h.token.expired

\* verifyToken: "next" with the decoded claims, or the status it answers
VerifyToken(h) ==
  IF ~h.present
  THEN [next |-> FALSE, status |-> 403, message |-> MsgNoToken, user |-> NoToken]
  ELSE IF JwtVerifies(h)
  THEN [next |-> TRUE, status |-> 0, message |-> "next", user |-> h.token]
  ELSE [next |-> FALSE, status |-> 401, message |-> MsgInvalidToken,
        user |-> NoToken]

\* the route guard: if (!req.user.isAdmin) return 403
IsAdmin(user) == user.isAdmin

----------------------------------------------------------------------------
(* Password hashing *)

\* bcrypt digest of a password under a salt
BcryptDigest(salt, pw) == <<salt, pw>>
BcryptHash(salt, pw) == [salt |-> salt, digest |-> BcryptDigest(salt, pw)]

\* a comparison that accepts every password
BcryptCompareAny(pw, hash) == TRUE

\* bcrypt.compare(password, hash): re-hash under the stored salt
BcryptCompare(pw, hash) == BcryptDigest(hash.salt, pw) = hash.digest

SeedUsers ==
  { [id |-> AdminId, email |-> "admin@shop", password |-> BcryptHash("s1", "pw1"),
     isAdmin |-> TRUE],
    [id |-> StaffId, email |-> "staff@shop", password |-> BcryptHash("s2", "pw2"),
     isAdmin |-> FALSE] }

Emails == {"admin@shop", "staff@shop", "nobody@shop"}
Passwords == {"pw1", "pw2", UNDEFINED}

\* User.findOne({ email })
FindUser(email) == {u \in users : u.email = email}

----------------------------------------------------------------------------
(* Responses *)

Response(route, status, message) ==
  [route |-> route, status |-> status, message |-> message,
   hasToken |-> FALSE, token |-> NoToken, count |-> 0]

NoResponse == Response("none", 0, "none")

----------------------------------------------------------------------------
(* Media backend *)

NoFile == [present |-> FALSE, path |-> NULL, filename |-> NULL]

\* req.file of the n-th stored upload: CloudinaryStorage gives the asset's
\* URL and public id, diskStorage the generated file name
StoredFile(n) ==
  IF isCloudinaryConfigured
  THEN [present |-> TRUE, path |-> "https://res.cloudinary.com/" \o ToString(n),
        filename |-> "dream-house-products/" \o ToString(n)]
  ELSE [present |-> TRUE, path |-> "uploads/" \o ToString(n),
        filename |-> ToString(n) \o ".png"]

MediaKeys == {"dream-house-products/" \o ToString(n) : n \in 1..MaxRequests}

\* what a request's multipart part does in uploadMiddleware
UploadOutcomes == {"none", "stored", "failed"}

\* image fields that lose the URL of a request without a file
ImageFieldsLosesUrl(file, oldUrl, oldKey) ==
  IF file.present
  THEN IF isCloudinaryConfigured
       THEN [imageUrl |-> file.path, cloudinaryId |-> file.filename]
       ELSE [imageUrl |-> "/uploads/" \o file.filename, cloudinaryId |-> oldKey]
  ELSE [imageUrl |-> NULL, cloudinaryId |-> oldKey]

\* image fields the create and update handlers derive from req.file
ImageFields(file, oldUrl, oldKey) ==
  IF file.present
  THEN IF isCloudinaryConfigured
       THEN [imageUrl |-> file.path, cloudinaryId |-> file.filename]
       ELSE [imageUrl |-> "/uploads/" \o file.filename, cloudinaryId |-> oldKey]
  ELSE [imageUrl |-> oldUrl, cloudinaryId |-> oldKey]

----------------------------------------------------------------------------
(* Product documents *)

TextFields == {"name", "category", "subCategory", "description"}

Bodies ==
  { [name |-> "sofa", price |-> "120", category |-> "living",
     subCategory |-> "couch", description |-> "soft"],
    [name |-> "sofa", price |-> UNDEFINED, category |-> "living",
     subCategory |-> "couch", description |-> "soft"],
    [name |-> UNDEFINED, price |-> "120", category |-> "living",
     subCategory |-> "couch", description |-> "soft"],
    [name |-> "desk", price |-> "80", category |-> "",
     subCategory |-> "oak", description |-> ""] }

\* a key set to undefined is not stored
Stored(v) == IF v = UNDEFINED THEN NULL ELSE v

\* new Product({...}) with the schema default featured: false
NewProduct(body, img) ==
  [name |-> Stored(body.name),
   price |-> IF priceRequired THEN Stored(body.price) ELSE NULL,
   category |-> Stored(body.category),
   subCategory |-> Stored(body.subCategory),
   description |-> Stored(body.description),
   imageUrl |-> Stored(img.imageUrl), cloudinaryId |-> Stored(img.cloudinaryId),
   featured |-> FALSE]

\* ProductSchema: name, category and, in the earlier revision, price are
\* required (checked by save())
SchemaValid(doc) ==
  /\ Present(doc.name) /\ doc.name # ""
  /\ priceRequired => Present(doc.price)
  /\ Present(doc.category) /\ doc.category # ""

\* one string key of a findByIdAndUpdate update; no validators run.  A key
\* whose value is undefined is dropped from the update or written as null:
\* which of the two depends on the ODM build, and omit says which it is
UpdatedValue(old, new, omit) ==
  IF new = UNDEFINED THEN (IF omit THEN old ELSE NULL) ELSE new

\* an update that leaves the category out
UpdatedProductSkipsCategory(doc, body, img, omit) ==
  [doc EXCEPT !.name = UpdatedValue(@, body.name, omit),
              !.price = IF priceRequired
                        THEN UpdatedValue(@, body.price, omit) ELSE @,
              !.subCategory = UpdatedValue(@, body.subCategory, omit),
              !.description = UpdatedValue(@, body.description, omit),
              !.imageUrl = UpdatedValue(@, img.imageUrl, omit),
              !.cloudinaryId = UpdatedValue(@, img.cloudinaryId, omit)]

\* the document after findByIdAndUpdate(id, {name, ..., imageUrl, cloudinaryId})
UpdatedProduct(doc, body, img, omit) ==
  [doc EXCEPT !.name = UpdatedValue(@, body.name, omit),
              !.price = IF priceRequired
                        THEN UpdatedValue(@, body.price, omit) ELSE @,
              !.category = UpdatedValue(@, body.category, omit),
              !.subCategory = UpdatedValue(@, body.subCategory, omit),
              !.description = UpdatedValue(@, body.description, omit),
              !.imageUrl = UpdatedValue(@, img.imageUrl, omit),
              !.cloudinaryId = UpdatedValue(@, img.cloudinaryId, omit)]

\* a toggle that also clears the description
ToggledAndCleared(doc, featured) ==
  [doc EXCEPT !.featured = featured, !.description = NULL]

\* the document after findByIdAndUpdate(id, {featured})
ToggledProduct(doc, featured) == [doc EXCEPT !.featured = featured]

\* ids a request can name: those assigned so far and one never assigned
Ids == 1..(nextId + 1)

Exists(id) == id \in DOMAIN products

----------------------------------------------------------------------------
Init ==
  /\ isCloudinaryConfigured \in BOOLEAN
  /\ priceRequired \in BOOLEAN
  /\ users = SeedUsers
  /\ products = <<>>
  /\ nextId = 0
  /\ uploads = 0
  /\ destroyCalls = [k \in MediaKeys |-> 0]
  /\ inflight = EmptyBag
  /\ received = 0
  /\ errorLog = 0
  /\ resp = NoResponse

\* what no route writes
config == <<isCloudinaryConfigured, priceRequired, users>>

\* a request arrives
Receive ==
  /\ received < MaxRequests
  /\ received' = received + 1
  /\ UNCHANGED errorLog

\* res.status(status).json(...) with nothing else touched
Reply(route, status, message) ==
  /\ resp' = Response(route, status, message)
  /\ UNCHANGED <<products, nextId, uploads, destroyCalls, inflight>>

\* POST /api/login
PostLogin(email, password) ==
  /\ Receive
  /\ resp' =
       IF FindUser(email) = {} THEN Response("login", 400, MsgAdminNotFound)
       ELSE LET admin == CHOOSE u \in FindUser(email) : TRUE IN
            IF password = UNDEFINED THEN Response("login", 500, MsgInternalError)
            ELSE IF ~BcryptCompare(password, admin.password)
            THEN Response("login", 400, MsgBadPassword)
            ELSE [Response("login", 200, MsgJson) EXCEPT
                    !.hasToken = TRUE, !.token = JwtSign(admin.id, TRUE)]
  /\ UNCHANGED <<config, products, nextId, uploads, destroyCalls, inflight>>

\* a request suspended at an await of the update or delete handler
Suspended(route, pc, id, body, file, product, user) ==
  [route |-> route, pc |-> pc, id |-> id, body |-> body, file |-> file,
   imageUrl |-> product.imageUrl, cloudinaryId |-> product.cloudinaryId,
   user |-> user, calls |-> 0]

NoBody ==
  [name |-> UNDEFINED, price |-> UNDEFINED, category |-> UNDEFINED, subCategory |-> UNDEFINED,
   description |-> UNDEFINED]

One(r) == SetToBag({r})

Requests == BagToSet(inflight)

\* if (isCloudinaryConfigured && product.cloudinaryId)
HasCloudImage(product) == isCloudinaryConfigured /\ Present(product.cloudinaryId)

\* a destroy failure that is not caught
DestroyContinuesIfOk(ok) == ok

\* try { await cloudinary.uploader.destroy(key) } catch (err) { console.error }
\* whether the handler goes on after a destroy call that ended ok / not ok
DestroyContinues(ok) == TRUE

\* a guard that forgets the category
MissingRequiredNameOnly(body) == Falsy(body.name)

\* if (!name || !category), with !price in the earlier revision
MissingRequired(body) ==
  Falsy(body.name) \/ (priceRequired /\ Falsy(body.price)) \/ Falsy(body.category)

\* Product.findByIdAndDelete(id)
Removed(id) == [i \in DOMAIN products \ {id} |-> products[i]]

\* uploadMiddleware stores the request's file, if it carries one
StoreUpload(upload) ==
  uploads' = IF upload = "stored" THEN uploads + 1 ELSE uploads

\* req.file after uploadMiddleware
ReqFile(upload) == IF upload = "stored" THEN StoredFile(uploads + 1) ELSE NoFile

\* POST /api/products: verifyToken, uploadMiddleware, handler
PostProducts(h, body, upload) ==
  LET v == VerifyToken(h)
      doc == NewProduct(body, ImageFields(ReqFile(upload), NULL, NULL))
  IN
  /\ Receive
  /\ UNCHANGED config
  /\ IF ~v.next THEN Reply("POST", v.status, v.message)
     ELSE IF upload = "failed" THEN Reply("POST", 500, MsgUploadError)
     ELSE
       /\ StoreUpload(upload)
       /\ UNCHANGED <<destroyCalls, inflight>>
       /\ IF ~IsAdmin(v.user)
          THEN /\ resp' = Response("POST", 403, MsgAdminRequired)
               /\ UNCHANGED <<products, nextId>>
          ELSE IF MissingRequired(body)
          THEN /\ resp' = Response("POST", 400, MsgMissing)
               /\ UNCHANGED <<products, nextId>>
          ELSE IF ~SchemaValid(doc)
          THEN /\ resp' = Response("POST", 500, MsgServerError)
               /\ UNCHANGED <<products, nextId>>
          ELSE /\ nextId' = nextId + 1
               /\ products' = (nextId + 1 :> doc) @@ products
               /\ resp' = Response("POST", 201, MsgAdded)

\* PUT /api/products/:id: verifyToken, uploadMiddleware and the handler up
\* to the await that follows findById
PutProducts(h, id, body, upload) ==
  LET v == VerifyToken(h) IN
  /\ Receive
  /\ UNCHANGED config
  /\ IF ~v.next THEN Reply("PUT", v.status, v.message)
     ELSE IF upload = "failed" THEN Reply("PUT", 500, MsgUploadError)
     ELSE
       /\ StoreUpload(upload)
       /\ UNCHANGED <<products, nextId, destroyCalls>>
       /\ IF ~IsAdmin(v.user)
          THEN /\ resp' = Response("PUT", 403, MsgAdminRequired)
               /\ UNCHANGED inflight
          ELSE IF ~Exists(id)
          THEN /\ resp' = Response("PUT", 404, MsgNotFound)
               /\ UNCHANGED inflight
          ELSE /\ UNCHANGED resp
               /\ inflight' = inflight (+) One(Suspended("PUT",
                    IF upload = "stored" /\ HasCloudImage(products[id])
                    THEN "destroy" ELSE "write",
                    id, body, ReqFile(upload), products[id], v.user))

\* a destroy call of a suspended handler ends, ok or not
Destroy(r, ok, route, pc) ==
  /\ r \in Requests /\ r.route = route /\ r.pc = "destroy"
  /\ destroyCalls' = [destroyCalls EXCEPT ![r.cloudinaryId] = @ + 1]
  /\ IF DestroyContinues(ok)
     THEN /\ inflight' = (inflight (-) One(r)) (+) One([r EXCEPT !.pc = pc, !.calls = @ + 1])
          /\ UNCHANGED resp
     ELSE /\ inflight' = inflight (-) One(r)
          /\ resp' = Response(route, 500, MsgServerError)
  /\ errorLog' = IF ok THEN errorLog ELSE errorLog + 1
  /\ UNCHANGED <<config, products, nextId, uploads, received>>

\* the update handler's cloudinary.uploader.destroy(product.cloudinaryId)
PutDestroy(r, ok) == Destroy(r, ok, "PUT", "write")

\* findByIdAndUpdate(productId, {...}, {new: true}) and res.json
PutWrite(r, omit) ==
  /\ r \in Requests /\ r.route = "PUT" /\ r.pc = "write"
  /\ products' =
       IF Exists(r.id)
       THEN [products EXCEPT ![r.id] =
               UpdatedProduct(@, r.body,
                              ImageFields(r.file, r.imageUrl, r.cloudinaryId), omit)]
       ELSE products
  /\ resp' = Response("PUT", 200, IF Exists(r.id) THEN MsgJson ELSE NULL)
  /\ inflight' = inflight (-) One(r)
  /\ UNCHANGED <<config, nextId, uploads, destroyCalls, received, errorLog>>

\* DELETE /api/products/:id: verifyToken and the handler up to the await
\* that follows findById
DeleteProducts(h, id) ==
  LET v == VerifyToken(h) IN
  /\ Receive
  /\ UNCHANGED config
  /\ IF ~v.next THEN Reply("DELETE", v.status, v.message)
     ELSE IF ~IsAdmin(v.user) THEN Reply("DELETE", 403, MsgAdminRequired)
     ELSE IF ~Exists(id) THEN Reply("DELETE", 404, MsgNotFound)
     ELSE /\ UNCHANGED <<products, nextId, uploads, destroyCalls, resp>>
          /\ inflight' = inflight (+) One(Suspended("DELETE",
               IF HasCloudImage(products[id]) THEN "destroy" ELSE "remove",
               id, NoBody, NoFile, products[id], v.user))

\* the delete handler's cloudinary.uploader.destroy(product.cloudinaryId)
DeleteDestroy(r, ok) == Destroy(r, ok, "DELETE", "remove")

\* findByIdAndDelete(req.params.id) and res.json
DeleteRemove(r) ==
  /\ r \in Requests /\ r.route = "DELETE" /\ r.pc = "remove"
  /\ products' = Removed(r.id)
  /\ resp' = Response("DELETE", 200, MsgDeleted)
  /\ inflight' = inflight (-) One(r)
  /\ UNCHANGED <<config, nextId, uploads, destroyCalls, received, errorLog>>

\* PATCH /api/products/:id
PatchProducts(h, id, featured) ==
  LET v == VerifyToken(h) IN
  /\ Receive
  /\ UNCHANGED config
  /\ IF ~v.next THEN Reply("PATCH", v.status, v.message)
     ELSE IF ~IsAdmin(v.user) THEN Reply("PATCH", 403, MsgAdminRequired)
     ELSE /\ products' =
               IF Exists(id)
               THEN [products EXCEPT ![id] = ToggledProduct(@, featured)]
               ELSE products
          /\ resp' = Response("PATCH", 200, IF Exists(id) THEN MsgJson ELSE NULL)
          /\ UNCHANGED <<nextId, uploads, destroyCalls, inflight>>

\* query.limit(limit) when limit > 0
Limited(limit) ==
  IF limit > 0 /\ limit < Cardinality(DOMAIN products)
  THEN limit ELSE Cardinality(DOMAIN products)

\* GET /api/products?limit=
GetProducts(limit) ==
  /\ Receive
  /\ resp' = [Response("GET", 200, MsgJson) EXCEPT !.count = Limited(limit)]
  /\ UNCHANGED <<config, products, nextId, uploads, destroyCalls, inflight>>

Next ==
  \/ \E e \in Emails, p \in Passwords : PostLogin(e, p)
  \/ \E h \in Headers, b \in Bodies, u \in UploadOutcomes : PostProducts(h, b, u)
  \/ \E h \in Headers, id \in Ids, b \in Bodies, u \in UploadOutcomes :
       PutProducts(h, id, b, u)
  \/ \E r \in Requests, ok \in BOOLEAN : PutDestroy(r, ok)
  \/ \E r \in Requests, omit \in BOOLEAN : PutWrite(r, omit)
  \/ \E h \in Headers, id \in Ids : DeleteProducts(h, id)
  \/ \E r \in Requests, ok \in BOOLEAN : DeleteDestroy(r, ok)
  \/ \E r \in Requests : DeleteRemove(r)
  \/ \E h \in Headers, id \in Ids, f \in BOOLEAN : PatchProducts(h, id, f)
  \/ \E l \in 0..1 : GetProducts(l)

Spec == Init /\ [][Next]_vars
----------------------------------------------------------------------------
(* Vocabulary of the properties *)

\* the credential's signature and expiry verify
CredentialVerifies(h) ==
  h.present /\ h.parts = 2 /\ h.token.sigOk /\ ~h.token.expired

\* a verified credential whose isAdmin claim is true
AdminCredential(h) == CredentialVerifies(h) /\ h.token.isAdmin

\* the credentials an administrator presents
AdminCredentials == {h \in Headers : AdminCredential(h)}

\* a required field that is missing or empty
Blank(v) == v = UNDEFINED \/ v = ""

\* the handler read a cloud image's key from the document it found
ReadCloudImage(r) == isCloudinaryConfigured /\ r.cloudinaryId \notin {NULL, UNDEFINED}

\* this step received a request and answered it on this route
Received(route) == received' = received + 1 /\ resp'.route = route

\* every document other than id is kept as it is
OthersKept(id) ==
  \A j \in DOMAIN products \ {id} :
    j \in DOMAIN products' /\ products'[j] = products[j]

----------------------------------------------------------------------------
\* C1: a verified credential without the admin claim gets 403 on every
\* admin-only route, whatever the id, the body and the upload step's outcome.
C1_NonAdminGets403 ==
  [][\A h \in Headers : (CredentialVerifies(h) /\ ~h.token.isAdmin) =>
       \A id \in Ids, b \in Bodies, u \in UploadOutcomes, f \in BOOLEAN :
         (\/ Received("POST") /\ PostProducts(h, b, u)
          \/ Received("PUT") /\ PutProducts(h, id, b, u)
          \/ Received("DELETE") /\ DeleteProducts(h, id)
          \/ Received("PATCH") /\ PatchProducts(h, id, f))
         => resp'.status = 403]_vars

\* C2: only a request whose credential verified with the admin claim
\* performs a mutating operation (on the product collection or the media
\* backend); every suspended handler has passed that check; a request
\* without such a credential mutates nothing.
C2_OnlyVerifiedAdminMutates ==
  [][/\ \A r \in Requests : r.user.sigOk /\ ~r.user.expired /\ r.user.isAdmin
     /\ \A h \in Headers : ~AdminCredential(h) =>
          \A id \in Ids, b \in Bodies, u \in UploadOutcomes, f \in BOOLEAN :
            (\/ Received("POST") /\ PostProducts(h, b, u)
             \/ Received("PUT") /\ PutProducts(h, id, b, u)
             \/ Received("DELETE") /\ DeleteProducts(h, id)
             \/ Received("PATCH") /\ PatchProducts(h, id, f))
            => UNCHANGED <<products, uploads, destroyCalls, inflight>>]_vars

\* C3 as stated: an admin's create request with a missing or empty name or
\* category is answered 400 and persists nothing, with or without a file.
C3_MissingFieldsGet400 ==
  [][Received("POST") =>
       \A h \in AdminCredentials, b \in Bodies,
          u \in UploadOutcomes :
         ((Blank(b.name) \/ Blank(b.category)) /\ PostProducts(h, b, u))
         => resp'.status = 400 /\ products' = products]_vars

\* C3 amended: such a request persists nothing; it is answered 400 unless
\* its file failed in the upload step, which answers 500 before the handler.
C3_MissingFieldsRejected ==
  [][Received("POST") =>
       \A h \in AdminCredentials, b \in Bodies,
          u \in UploadOutcomes :
         ((Blank(b.name) \/ Blank(b.category)) /\ PostProducts(h, b, u))
         => /\ resp'.status = IF u = "failed" THEN 500 ELSE 400
            /\ products' = products /\ nextId' = nextId]_vars

\* the first request was a create with a stored file, answered 400
C3_Witness ==
  /\ received = 1 /\ uploads = 1
  /\ resp.route = "POST" /\ resp.status = 400 /\ products = <<>>

\* C4 as stated: in either storage mode every product has imageUrl and the
\* deletion key both present or both absent.
C4_UrlIffKey ==
  \A id \in DOMAIN products :
    Present(products[id].imageUrl) <=> Present(products[id].cloudinaryId)

\* C4 amended: no product has a deletion key without an imageUrl; in cloud
\* mode the two are present together, in local mode no product has a key.
C4_KeyImpliesUrl ==
  \A id \in DOMAIN products :
    /\ Present(products[id].cloudinaryId) => Present(products[id].imageUrl)
    /\ isCloudinaryConfigured =>
         (Present(products[id].imageUrl) <=> Present(products[id].cloudinaryId))
    /\ ~isCloudinaryConfigured => ~Present(products[id].cloudinaryId)

\* local mode: the one product ever created carries the second upload, put
\* by an update, as an imageUrl without a key
C4_Witness ==
  /\ ~isCloudinaryConfigured
  /\ nextId = 1 /\ 1 \in DOMAIN products /\ resp.route = "PUT"
  /\ products[1].imageUrl = "/uploads/2.png"
  /\ ~Present(products[1].cloudinaryId)

\* C5: in cloud mode a product's key receives exactly one deletion
\* call when the product is deleted, also when requests for the same
\* product interleave; the record is removed either way.
C5_OneCallPerKey ==
  [][/\ \A k \in MediaKeys : destroyCalls'[k] <= 1
     /\ \A r \in Requests :
          (r.route = "DELETE" /\ DeleteRemove(r) /\ ReadCloudImage(r))
          => destroyCalls[r.cloudinaryId] = 1 /\ r.id \notin DOMAIN products']_vars

\* two deletes of one product interleaved: both read the key before either
\* removed the record, and the key received two deletion calls
C5_TwoCallsOneKey ==
  /\ isCloudinaryConfigured /\ nextId = 1 /\ products = <<>>
  /\ resp.route = "DELETE" /\ resp.status = 200 /\ inflight = EmptyBag
  /\ destroyCalls["dream-house-products/1"] = 2

\* C6: every persisted product has a non-empty name and a non-empty
\* category, after creates and updates alike.
C6_RequiredFieldsKept ==
  \A id \in DOMAIN products :
    /\ Present(products[id].name) /\ products[id].name # ""
    /\ Present(products[id].category) /\ products[id].category # ""

\* what C7 says of the three kinds of update step, but for the status of
\* an update whose target does not exist
C7_Frame(uploadMayFail) ==
  /\ \A r \in Requests : (r.route = "PUT" /\ \E omit \in BOOLEAN : PutWrite(r, omit)) =>
       /\ OthersKept(r.id) /\ DOMAIN products' = DOMAIN products
       /\ (~r.file.present /\ Exists(r.id)) =>
            /\ products'[r.id].imageUrl = r.imageUrl
            /\ products'[r.id].cloudinaryId = r.cloudinaryId
            /\ products'[r.id].featured = products[r.id].featured
            /\ \A f \in TextFields :
                 r.body[f] # UNDEFINED => products'[r.id][f] = r.body[f]
  /\ \A r \in Requests, ok \in BOOLEAN :
       (r.route = "PUT" /\ PutDestroy(r, ok)) => products' = products
  /\ (received' = received + 1 /\ (resp'.route = "PUT" \/ inflight' # inflight)) =>
     \A h \in AdminCredentials, id \in Ids, b \in Bodies,
        u \in UploadOutcomes :
       PutProducts(h, id, b, u) =>
         /\ products' = products
         /\ ~Exists(id) => resp'.status =
              IF uploadMayFail /\ u = "failed" THEN 500 ELSE 404
         /\ (Exists(id) /\ u # "failed") =>
              \E r \in BagToSet(inflight') :
                /\ r.id = id /\ r.body = b
                /\ r.imageUrl = products[id].imageUrl
                /\ r.cloudinaryId = products[id].cloudinaryId

C8_DestroyFailureIgnored ==
  [][\A r \in Requests :
       /\ \A ok \in BOOLEAN :
            (PutDestroy(r, ok) \/ DeleteDestroy(r, ok)) =>
              /\ destroyCalls'[r.cloudinaryId] = destroyCalls[r.cloudinaryId] + 1
              /\ \E q \in BagToSet(inflight') :
                   /\ q.id = r.id /\ q.route = r.route /\ q.file = r.file
                   /\ q.pc = IF r.route = "PUT" THEN "write" ELSE "remove"
              /\ resp' = resp
       /\ (/\ r.route = "PUT" /\ r.file.present /\ ReadCloudImage(r)
           /\ \E omit \in BOOLEAN : PutWrite(r, omit)) =>
            /\ r.calls = 1
            /\ resp'.status = 200
            /\ Exists(r.id) =>
                 /\ products'[r.id].imageUrl = r.file.path
                 /\ products'[r.id].cloudinaryId = r.file.filename
       /\ (r.route = "DELETE" /\ DeleteRemove(r)) =>
            resp'.status = 200 /\ r.id \notin DOMAIN products']_vars

\* the previous image's deletion failed, the update answered 200 and the
\* record carries the second upload
C8_Witness ==
  /\ errorLog = 1 /\ destroyCalls["dream-house-products/1"] = 1
  /\ resp.route = "PUT" /\ resp.status = 200 /\ received = 2
  /\ 1 \in DOMAIN products
  /\ products[1].cloudinaryId = "dream-house-products/2"
  /\ products[1].imageUrl = "https://res.cloudinary.com/2"

\* C9: an admin's toggle changes the featured field of the target and
\* nothing else, creates and removes nothing; toggling to the other value
\* and back gives the document back.
C9_ToggleFrame ==
  [][/\ Received("PATCH") =>
          \A h \in AdminCredentials, id \in Ids, f \in BOOLEAN :
          PatchProducts(h, id, f) =>
            /\ DOMAIN products' = DOMAIN products
            /\ OthersKept(id)
            /\ Exists(id) => products'[id] = [products[id] EXCEPT !.featured = f]
            /\ UNCHANGED <<users, nextId, uploads, destroyCalls, inflight>>
            /\ resp'.status = 200
     /\ \A id \in DOMAIN products' :
          ToggledProduct(ToggledProduct(products'[id], ~products'[id].featured),
                         products'[id].featured) = products'[id]]_vars

\* a toggle has set a product's featured flag
C9_Witness ==
  /\ resp.route = "PATCH" /\ resp.status = 200 /\ resp.message = MsgJson
  /\ \E id \in DOMAIN products : products[id].featured

====
